---- MODULE Spec2Model ----
(***************************************************************************)
(* A model of sandworm (src/sandworm/src/main.rs): the whitespace-run      *)
(* pattern, scan_file, the directory walk with its entry filter, the       *)
(* parallel scan with its shared counter, and the report.                  *)
(*                                                                         *)
(* A character is its Unicode code point; a line is a sequence of          *)
(* characters; a path is the sequence of its segments.                     *)
(***************************************************************************)
EXTENDS Integers, Sequences, FiniteSets, TLC

\* ------------------------------------------------------------------ bounds
MaxWsMin == 3
NumWorkers == 2
MaxLineLen == 5
MaxTail == 2
PadBelow == 5

\* ------------------------------------------------------- program constants
PreviewLimit == 120
DefaultMaxSize == 10000000

\* A --max-size small enough that the model's larger files exceed it.
SmallMaxSize == 6

SP == 32
TAB == 9
DOT == 46

VARIABLES
    fs,             \* the files of the tree: path -> file
    root,           \* cli.path
    argN,           \* the value given to -n (negative: not a usize)
    max_size,       \* cli.max_size
    pc,             \* where main() is
    ws_min,         \* main's ws_min
    paths,          \* main's paths
    files_scanned,  \* the AtomicUsize
    slot,           \* per index of paths: the state and result of its closure call
    worker,         \* per pool thread: the index it is running the closure on (0: idle)
    all_findings,   \* main's all_findings
    total_scanned,  \* main's total_scanned (-1: not loaded yet)
    stdout,
    stderr,
    exit_code,      \* -1: running
    m_line,         \* pattern check: the line
    m_n,            \* pattern check: the threshold
    m_pc,
    m_found,        \* pattern check: scan_file's findings for the one-line file
    pv_line,        \* preview check: the matched line
    pv_pc,
    pv_end,         \* preview check: the local `end`
    pv_out          \* preview check: the preview

mainVars == <<fs, root, argN, max_size, pc, ws_min, paths, files_scanned, slot,
              worker, all_findings, total_scanned, stdout, stderr, exit_code>>
matchVars == <<m_line, m_n, m_pc, m_found>>
previewVars == <<pv_line, pv_pc, pv_end, pv_out>>
vars == <<mainVars, matchVars, previewVars>>

\* ------------------------------------------------------------- characters
IsWs(c) == c = SP \/ c = TAB

\* The number of bytes of a character's UTF-8 encoding.
Utf8Len(c) == IF c < 128 THEN 1 ELSE IF c < 2048 THEN 2 ELSE IF c < 65536 THEN 3 ELSE 4

\* str::len(): the sum of the characters' encoded lengths (by halves, to keep the
\* evaluation shallow on long lines).
RECURSIVE ByteLen(_)
ByteLen(line) ==
    IF Len(line) = 0 THEN 0
    ELSE IF Len(line) = 1 THEN Utf8Len(line[1])
    ELSE LET h == Len(line) \div 2
         IN ByteLen(SubSeq(line, 1, h)) + ByteLen(SubSeq(line, h + 1, Len(line)))

\* The byte offset at which the character after the first k characters starts.
ByteOff(line, k) == ByteLen(SubSeq(line, 1, k))

\* ------------------------------------------------ the pattern [ \t]{N,}
\* The greedy repetition tried at character position s (0-based): how many
\* space/tab characters follow.
RECURSIVE GreedyLen(_, _)
GreedyLen(line, s) ==
    IF s < Len(line) /\ IsWs(line[s + 1]) THEN 1 + GreedyLen(line, s + 1) ELSE 0

\* A plausible bug: the pattern {N} instead of {N,} takes exactly N characters.
RepeatExactly(line, s, n) ==
    IF GreedyLen(line, s) >= n THEN n ELSE GreedyLen(line, s)

\* What the repetition {N,} consumes at position s.
Repeat(line, s, n) == GreedyLen(line, s)

NoMatch == [found |-> FALSE, start |-> 0, end |-> 0]

\* Regex::find: the leftmost position at which the pattern matches; offsets in bytes.
RECURSIVE FindFrom(_, _, _)
FindFrom(line, n, s) ==
    IF s > Len(line) THEN NoMatch
    ELSE IF Repeat(line, s, n) >= n
         THEN [found |-> TRUE, start |-> ByteOff(line, s),
               end |-> ByteOff(line, s + Repeat(line, s, n))]
         ELSE FindFrom(line, n, s + 1)

Find(line, n) == FindFrom(line, n, 0)

\* ------------------------------------------------------------ the preview
\* A plausible bug: cutting at the byte limit without looking for a boundary.
AnyOffsetIsBoundary(line, off) == TRUE

\* str::is_char_boundary
IsCharBoundary(line, off) ==
    \/ off = 0
    \/ off = ByteLen(line)
    \/ \E k \in 1..Len(line) : ByteOff(line, k) = off

\* while !line.is_char_boundary(end) { end -= 1 }
RECURSIVE TruncEnd(_, _)
TruncEnd(line, end) ==
    IF IsCharBoundary(line, end) THEN end ELSE TruncEnd(line, end - 1)

\* The whole characters of &line[..end].
Slice(line, end) ==
    LET ks == {k \in 0..Len(line) : ByteOff(line, k) <= end}
        k == CHOOSE x \in ks : \A y \in ks : y <= x
    IN SubSeq(line, 1, k)

Marker == <<DOT, DOT, DOT>>

PreviewOf(line) ==
    IF ByteLen(line) > PreviewLimit
    THEN Slice(line, TruncEnd(line, PreviewLimit)) \o Marker
    ELSE line

\* ------------------------------------------------------------- scan_file
\* A plausible bug: `continue` instead of `break` on a line that fails to decode.
RECURSIVE ScanLines(_, _, _, _, _)
SkipUndecodableLine(path, lines, idx, n, findings) ==
    ScanLines(path, lines, idx + 1, n, findings)

\* Err(_) => break
OnDecodeError(path, lines, idx, n, findings) == findings

\* A plausible bug: inserting at the front.
PushFront(findings, f) == <<f>> \o findings

\* findings.push(f)
Push(findings, f) == Append(findings, f)

\* The loop over reader.lines().enumerate(), from index idx (0-based).
ScanLines(path, lines, idx, n, findings) ==
    IF idx >= Len(lines) THEN findings
    ELSE LET lr == lines[idx + 1] IN
         IF ~lr.ok THEN OnDecodeError(path, lines, idx, n, findings)
         ELSE LET mat == Find(lr.text, n) IN
              IF mat.found
              THEN ScanLines(path, lines, idx + 1, n,
                       Push(findings, [path |-> path,
                                       line_num |-> idx + 1,
                                       ws_count |-> mat.end - mat.start,
                                       line_preview |-> PreviewOf(lr.text)]))
              ELSE ScanLines(path, lines, idx + 1, n, findings)

\* meta.len(): each line with its terminator; an undecodable line is one bad byte.
RECURSIVE FileLen(_)
FileLen(lines) ==
    IF lines = <<>> THEN 0
    ELSE (IF Head(lines).ok THEN ByteLen(Head(lines).text) + 1 ELSE 2) + FileLen(Tail(lines))

ScanFileOf(f, path, n, maxsz) ==
    IF ~f.meta_ok THEN <<>>
    ELSE IF ~f.is_file \/ FileLen(f.lines) > maxsz \/ FileLen(f.lines) = 0 THEN <<>>
    ELSE IF ~f.open_ok THEN <<>>
    ELSE ScanLines(path, f.lines, 0, n, <<>>)

ScanFile(path, n, maxsz) == ScanFileOf(fs[path], path, n, maxsz)

\* ------------------------------------------------------------- the tree
ProjDir == <<"proj">>
SrcDir == <<"proj", "src">>
ModulesDir == <<"proj", "node_modules">>
PkgDir == <<"proj", "node_modules", "pkg">>
FileA == <<"proj", "a.js">>
FileB == <<"proj", "src", "b.js">>
FileI == <<"proj", "node_modules", "pkg", "i.js">>
Missing == <<"nowhere">>

Dirs == {ProjDir, SrcDir, ModulesDir, PkgDir}
Files == {FileA, FileB, FileI}
Roots == {ProjDir, SrcDir, ModulesDir, PkgDir, FileA, Missing}

Text(t) == [ok |-> TRUE, text |-> t]
Undecodable == [ok |-> FALSE, text |-> <<>>]
LineX == Text(<<120>>)
LineRun2 == Text(<<120, SP, SP, 121>>)
LineRun3 == Text(<<SP, TAB, SP>>)
LineTwoRuns == Text(<<120, SP, SP, 121, TAB, TAB, TAB, 122>>)

Regular(ls) == [meta_ok |-> TRUE, is_file |-> TRUE, open_ok |-> TRUE, lines |-> ls]
HitLines == <<LineRun2, LineX, LineTwoRuns>>
FileVariants ==
    { Regular(<<LineX>>),
      Regular(HitLines),
      Regular(<<LineRun3, Undecodable, LineRun3>>),
      Regular(<<Undecodable, LineRun3>>),
      Regular(<<>>),
      [Regular(HitLines) EXCEPT !.open_ok = FALSE],
      [Regular(HitLines) EXCEPT !.meta_ok = FALSE],
      [Regular(HitLines) EXCEPT !.is_file = FALSE] }

\* ------------------------------------------------------------- the walk
Denylist == {"node_modules", ".git", "vendor", ".pnpm", "dist", "build", ".cache",
             "__pycache__", ".venv", "venv", ".tox"}

\* A plausible bug: a denylist that misses the dependency directory.
FilterEntryLax(name) == name \notin (Denylist \ {"node_modules"})

\* The filter_entry closure: TRUE keeps the entry.
FilterEntry(name) == name \notin Denylist

IsPrefix(a, b) == Len(a) <= Len(b) /\ SubSeq(b, 1, Len(a)) = a

\* The regular files the walk yields from root rt. The entry of the root itself
\* (depth 0) is yielded unfiltered; every entry below it passes the filter, and a
\* directory that does not is not descended into. An error entry (a root that
\* does not exist) is dropped by filter_map(|e| e.ok()).
WalkFiles(rt) ==
    IF rt \in Files THEN {rt}
    ELSE IF rt \notin Dirs THEN {}
    ELSE {f \in Files : /\ IsPrefix(rt, f)
                        /\ \A k \in (Len(rt) + 1)..Len(f) : FilterEntry(f[k])}

RootWalkable(rt) == rt \in Files \/ rt \in Dirs

\* The sequences that list each element of S once (the walk's order is the
\* directory's, which the program does not choose).
Orders(S) ==
    {q \in [1..Cardinality(S) -> S] : \A i, j \in 1..Cardinality(S) : q[i] = q[j] => i = j}

\* ------------------------------------------------------------- main
Workers == 1..NumWorkers

Todo == [st |-> "todo", res |-> <<>>]

Msg(k, v) == [msg |-> k, n |-> v]

Init ==
    /\ fs \in [Files -> FileVariants]
    /\ root \in Roots
    /\ argN \in -1..MaxWsMin
    /\ max_size \in {SmallMaxSize, DefaultMaxSize}
    /\ pc = "parse"
    /\ ws_min = 0
    /\ paths = <<>>
    /\ files_scanned = 0
    /\ slot = <<>>
    /\ worker = [w \in Workers |-> 0]
    /\ all_findings = <<>>
    /\ total_scanned = -1
    /\ stdout = <<>>
    /\ stderr = <<>>
    /\ exit_code = -1
    /\ m_line = <<>> /\ m_n = 0 /\ m_pc = "off" /\ m_found = <<>>
    /\ pv_line = <<>> /\ pv_pc = "off" /\ pv_end = 0 /\ pv_out = <<>>

\* Cli::parse() fails on a value that is no usize: usage error, exit code 2.
ParseFail ==
    /\ pc = "parse"
    /\ argN < 0
    /\ pc' = "exit"
    /\ exit_code' = 2
    /\ stderr' = Append(stderr, Msg("usage", 0))
    /\ UNCHANGED <<fs, root, argN, max_size, ws_min, paths, files_scanned, slot, worker,
                   all_findings, total_scanned, stdout, matchVars, previewVars>>

\* Cli::parse(), the pattern, and the "Scanning ..." line.
Parse ==
    /\ pc = "parse"
    /\ argN >= 0
    /\ ws_min' = argN
    /\ stderr' = Append(stderr, Msg("scanning", argN))
    /\ pc' = "walk"
    /\ UNCHANGED <<fs, root, argN, max_size, paths, files_scanned, slot, worker,
                   all_findings, total_scanned, stdout, exit_code, matchVars, previewVars>>

\* The walk, collected into paths, and the "Found N files to scan" line.
Walk ==
    /\ pc = "walk"
    /\ \E q \in Orders(WalkFiles(root)) :
          /\ paths' = q
          /\ slot' = [i \in 1..Len(q) |-> Todo]
          /\ stderr' = Append(stderr, Msg("found_to_scan", Len(q)))
    /\ pc' = "scan"
    /\ UNCHANGED <<fs, root, argN, max_size, ws_min, files_scanned, worker,
                   all_findings, total_scanned, stdout, exit_code, matchVars, previewVars>>

\* A plausible bug: a counter update that loses the increment.
FetchAddLost(c) == c

\* files_scanned.fetch_add(1, Ordering::Relaxed)
FetchAdd(c) == c + 1

\* A pool thread takes the next item of par_iter and starts the closure on it.
Dispatch(w) ==
    /\ pc = "scan"
    /\ worker[w] = 0
    /\ \E i \in 1..Len(paths) :
          /\ slot[i].st = "todo"
          /\ slot' = [slot EXCEPT ![i].st = "busy"]
          /\ worker' = [worker EXCEPT ![w] = i]
    /\ files_scanned' = FetchAdd(files_scanned)
    /\ UNCHANGED <<fs, root, argN, max_size, pc, ws_min, paths, all_findings,
                   total_scanned, stdout, stderr, exit_code, matchVars, previewVars>>

\* The closure's scan_file call returns the item's findings.
Scan(w) ==
    /\ pc = "scan"
    /\ worker[w] # 0
    /\ slot' = [slot EXCEPT ![worker[w]] =
                    [st |-> "done", res |-> ScanFile(paths[worker[w]], ws_min, max_size)]]
    /\ worker' = [worker EXCEPT ![w] = 0]
    /\ UNCHANGED <<fs, root, argN, max_size, pc, ws_min, paths, files_scanned,
                   all_findings, total_scanned, stdout, stderr, exit_code,
                   matchVars, previewVars>>

RECURSIVE Flatten(_)
Flatten(ss) == IF ss = <<>> THEN <<>> ELSE Head(ss) \o Flatten(Tail(ss))

\* A plausible bug: a merge that keeps only the last item's result.
CollectLast(results) == IF results = <<>> THEN <<>> ELSE results[Len(results)]

\* flat_map(..).collect() into a Vec: the items' results, in the items' order.
CollectVec(results) == Flatten(results)

\* The join: every item is done; the results are collected and the counter loaded.
Collect ==
    /\ pc = "scan"
    /\ \A i \in 1..Len(paths) : slot[i].st = "done"
    /\ all_findings' = CollectVec([i \in 1..Len(paths) |-> slot[i].res])
    /\ total_scanned' = files_scanned
    /\ pc' = "report"
    /\ UNCHANGED <<fs, root, argN, max_size, ws_min, paths, files_scanned, slot, worker,
                   stdout, stderr, exit_code, matchVars, previewVars>>

PathsOf(findings) == {findings[i].path : i \in 1..Len(findings)}

\* A plausible bug: a header before every finding.
AlwaysHeader(current_file, path) == TRUE

\* current_file != Some(&finding.path)
NeedsHeader(current_file, path) == current_file # <<path>>

\* The loop over &all_findings: what it prints, given current_file (<<>>: None).
RECURSIVE RenderFrom(_, _, _)
RenderFrom(findings, i, current_file) ==
    IF i > Len(findings) THEN <<>>
    ELSE LET f == findings[i]
             hdr == IF NeedsHeader(current_file, f.path)
                    THEN <<[kind |-> "header", path |-> f.path, a |-> 0, b |-> 0]>>
                    ELSE <<>>
         IN hdr \o <<[kind |-> "line", path |-> f.path, a |-> f.line_num, b |-> f.ws_count]>>
                \o RenderFrom(findings, i + 1, <<f.path>>)

\* The report, the "Scanned N files" line, and the return from main.
Report ==
    /\ pc = "report"
    /\ IF all_findings = <<>>
       THEN /\ stderr' = stderr \o <<Msg("clean", ws_min), Msg("scanned", total_scanned)>>
            /\ stdout' = stdout
       ELSE /\ stdout' = stdout
                  \o <<[kind |-> "found", path |-> <<>>,
                        a |-> Cardinality(PathsOf(all_findings)), b |-> ws_min]>>
                  \o RenderFrom(all_findings, 1, <<>>)
            /\ stderr' = Append(stderr, Msg("scanned", total_scanned))
    /\ exit_code' = 0
    /\ pc' = "exit"
    /\ UNCHANGED <<fs, root, argN, max_size, ws_min, paths, files_scanned, slot, worker,
                   all_findings, total_scanned, matchVars, previewVars>>

Next ==
    \/ ParseFail
    \/ Parse
    \/ Walk
    \/ \E w \in Workers : Dispatch(w)
    \/ \E w \in Workers : Scan(w)
    \/ Collect
    \/ Report

Spec == Init /\ [][Next]_vars

\* ------------------------------------------- the pattern on its own
MatchChars == {SP, TAB, 120, 233}

SeqsUpTo(S, n) == UNION {[1..k -> S] : k \in 0..n}

IdleMain ==
    /\ fs = [f \in Files |-> Regular(<<>>)]
    /\ root = Missing
    /\ argN = 0
    /\ max_size = DefaultMaxSize
    /\ pc = "off"
    /\ ws_min = 0
    /\ paths = <<>>
    /\ files_scanned = 0
    /\ slot = <<>>
    /\ worker = [w \in Workers |-> 0]
    /\ all_findings = <<>>
    /\ total_scanned = -1
    /\ stdout = <<>>
    /\ stderr = <<>>
    /\ exit_code = -1

MatchInit ==
    /\ IdleMain
    /\ m_line \in SeqsUpTo(MatchChars, MaxLineLen)
    /\ m_n \in 0..MaxWsMin
    /\ m_pc = "ready"
    /\ m_found = <<>>
    /\ pv_line = <<>> /\ pv_pc = "off" /\ pv_end = 0 /\ pv_out = <<>>

\* scan_file on a file whose one line is m_line, with the pattern for m_n.
MatchScan ==
    /\ m_pc = "ready"
    /\ m_found' = ScanFileOf(Regular(<<Text(m_line)>>), FileA, m_n, DefaultMaxSize)
    /\ m_pc' = "scanned"
    /\ UNCHANGED <<mainVars, m_line, m_n, previewVars>>

MatchNext == MatchScan

SpecMatch == MatchInit /\ [][MatchNext]_vars

\* ------------------------------------------- the preview on its own
HeadChars == {120, 233}
TailChars == {120, 233, 8364, 128512}

Rep(c, k) == [i \in 1..k |-> c]

\* The initial lines are matched lines whose byte length is near the limit: a tab,
\* a run of one character, and a tail of characters of every width.
PreviewInit ==
    /\ IdleMain
    /\ m_line = <<>> /\ m_n = 1 /\ m_pc = "off" /\ m_found = <<>>
    /\ \E h \in HeadChars, a \in 0..(PreviewLimit + 1), t \in SeqsUpTo(TailChars, MaxTail) :
          /\ 1 + a * Utf8Len(h) >= PreviewLimit - PadBelow
          /\ 1 + a * Utf8Len(h) <= PreviewLimit + 1
          /\ pv_line = <<TAB>> \o Rep(h, a) \o t
    /\ Find(pv_line, m_n).found
    /\ pv_pc = "matched"
    /\ pv_end = 0
    /\ pv_out = <<>>

\* line.len() <= 120: line.clone()
PvWhole ==
    /\ pv_pc = "matched"
    /\ ~(ByteLen(pv_line) > PreviewLimit)
    /\ pv_out' = pv_line
    /\ pv_pc' = "done"
    /\ UNCHANGED <<mainVars, matchVars, pv_line, pv_end>>

\* line.len() > 120: let mut end = 120
PvStart ==
    /\ pv_pc = "matched"
    /\ ByteLen(pv_line) > PreviewLimit
    /\ pv_end' = PreviewLimit
    /\ pv_pc' = "loop"
    /\ UNCHANGED <<mainVars, matchVars, pv_line, pv_out>>

\* One turn of the while loop: end -= 1
PvBack ==
    /\ pv_pc = "loop"
    /\ ~IsCharBoundary(pv_line, pv_end)
    /\ pv_end' = pv_end - 1
    /\ UNCHANGED <<mainVars, matchVars, pv_line, pv_pc, pv_out>>

\* The loop's exit: format!("{}...", &line[..end])
PvCut ==
    /\ pv_pc = "loop"
    /\ IsCharBoundary(pv_line, pv_end)
    /\ pv_out' = Slice(pv_line, pv_end) \o Marker
    /\ pv_pc' = "done"
    /\ UNCHANGED <<mainVars, matchVars, pv_line, pv_end>>

PreviewNext == PvWhole \/ PvStart \/ PvBack \/ PvCut

SpecPreview == PreviewInit /\ [][PreviewNext]_vars

\* =================================================================
\* Properties
\* =================================================================

\* The maximal runs of space/tab characters of a line, as <<a, b>>: the run is
\* the characters a+1..b.
MaximalRuns(line) ==
    {r \in (0..Len(line)) \X (0..Len(line)) :
        /\ r[1] < r[2]
        /\ \A k \in (r[1] + 1)..r[2] : IsWs(line[k])
        /\ r[1] = 0 \/ ~IsWs(line[r[1]])
        /\ r[2] = Len(line) \/ ~IsWs(line[r[2] + 1])}

QualifyingRuns(line, n) == {r \in MaximalRuns(line) : r[2] - r[1] >= n}

FirstRun(rs) == CHOOSE r \in rs : \A q \in rs : r[1] <= q[1]

\* C1: for a threshold N >= 1, a line yields a Finding iff it has a maximal run
\* of space/tab characters of length >= N, never more than one Finding, and the
\* Finding's ws_count is the length of the leftmost such run.
C1_FirstMaximalRun ==
    (m_pc = "scanned" /\ m_n >= 1) =>
        /\ Len(m_found) <= 1
        /\ (Len(m_found) = 1) <=> (QualifyingRuns(m_line, m_n) # {})
        /\ Len(m_found) = 1 =>
              LET r == FirstRun(QualifyingRuns(m_line, m_n))
              IN /\ m_found[1].ws_count = r[2] - r[1]
                 /\ m_found[1].line_num = 1

\* A line with a character of two bytes and two runs, the first too short: the
\* one Finding is for the second run, of exactly N characters.
C1_Witness ==
    /\ m_pc = "scanned"
    /\ m_n = 2
    /\ Cardinality(MaximalRuns(m_line)) = 2
    /\ Cardinality(QualifyingRuns(m_line, m_n)) = 1
    /\ FirstRun(MaximalRuns(m_line)) \notin QualifyingRuns(m_line, m_n)
    /\ \E k \in 1..Len(m_line) : Utf8Len(m_line[k]) > 1
    /\ Len(m_found) = 1
    /\ m_found[1].ws_count = 2

HasDenylisted(path, from) == \E k \in from..Len(path) : path[k] \in Denylist

\* C2 as stated (for a run with a threshold >= 1): no Finding's path has a
\* denylisted segment anywhere.
C2_NoDenylistedSegment ==
    ws_min >= 1 => \A i \in 1..Len(all_findings) : ~HasDenylisted(all_findings[i].path, 1)

\* C2 amended: every Finding's path lies at or under the root, and none of its
\* segments below the root is denylisted.
C2_NoDenylistedSegmentBelowRoot ==
    \A i \in 1..Len(all_findings) :
        /\ IsPrefix(root, all_findings[i].path)
        /\ ~HasDenylisted(all_findings[i].path, Len(root) + 1)

\* The excluded file would have had findings; the others' findings are reported.
C2_Witness ==
    /\ pc = "exit"
    /\ root = ProjDir
    /\ ScanFile(FileI, ws_min, max_size) # <<>>
    /\ PathsOf(all_findings) = {FileA, FileB}

Tuple(f) == <<f.path, f.line_num, f.ws_count>>
TuplesOf(findings) == {Tuple(findings[i]) : i \in 1..Len(findings)}

\* C3: once collected, the findings are, as a set of (path, line, count) tuples,
\* those of scan_file on the walked files, whatever the workers' schedule and the
\* order of the walk, and no tuple occurs twice.
C3_ScheduleIndependent ==
    pc \in {"report", "exit"} /\ exit_code # 2 =>
        /\ TuplesOf(all_findings) =
              UNION {TuplesOf(ScanFile(f, ws_min, max_size)) : f \in WalkFiles(root)}
        /\ Cardinality(TuplesOf(all_findings)) = Len(all_findings)

C3_Witness ==
    /\ pc = "exit"
    /\ paths = <<FileB, FileA>>
    /\ ScanFile(FileA, ws_min, max_size) # <<>>
    /\ Len(ScanFile(FileB, ws_min, max_size)) >= 2
    /\ Len(all_findings) >= 3

\* The first line of a file that fails to decode (0: none).
FirstUndecodable(lines) ==
    IF \A k \in 1..Len(lines) : lines[k].ok THEN 0
    ELSE CHOOSE k \in 1..Len(lines) : ~lines[k].ok /\ \A j \in 1..(k - 1) : lines[j].ok

Scannable(f, maxsz) ==
    f.meta_ok /\ f.is_file /\ f.open_ok /\ FileLen(f.lines) > 0 /\ FileLen(f.lines) <= maxsz

Without(q, p) == SelectSeq(q, LAMBDA x : x # p)

\* C4: a file whose first undecodable line is line k yields exactly the Findings
\* of its lines 1..k-1; the run still exits with code 0; and the other files'
\* Findings are what the run yields without that file.
C4_DecodeFailureIsolated ==
    /\ \A i \in 1..Len(slot) :
          LET f == fs[paths[i]]
              k == FirstUndecodable(f.lines)
          IN (slot[i].st = "done" /\ Scannable(f, max_size) /\ k > 0) =>
                /\ {slot[i].res[j].line_num : j \in 1..Len(slot[i].res)} =
                      {j \in 1..(k - 1) : Find(f.lines[j].text, ws_min).found}
                /\ Len(slot[i].res) =
                      Cardinality({j \in 1..(k - 1) : Find(f.lines[j].text, ws_min).found})
    /\ (pc = "exit" /\ exit_code # 2) =>
          /\ exit_code = 0
          /\ \A i \in 1..Len(paths) :
                FirstUndecodable(fs[paths[i]].lines) > 0 =>
                    SelectSeq(all_findings, LAMBDA x : x.path # paths[i]) =
                        Flatten([j \in 1..(Len(paths) - 1) |->
                                    ScanFile(Without(paths, paths[i])[j], ws_min, max_size)])

C4_Witness ==
    /\ pc = "exit"
    /\ Len(paths) = 2
    /\ \E i \in 1..2 :
          /\ FirstUndecodable(fs[paths[i]].lines) = 2
          /\ Find(fs[paths[i]].lines[3].text, ws_min).found
          /\ Len(slot[i].res) = 1
          /\ Len(slot[3 - i].res) >= 2
    /\ Len(all_findings) >= 3

HasMsg(k) == \E i \in 1..Len(stderr) : stderr[i].msg = k

\* C5: a run (with a threshold >= 1) whose root cannot be walked ends as a
\* failure, without the "clean" message and the "Scanned N files" line.
C5_UnwalkableRootFails ==
    (pc = "exit" /\ argN >= 1 /\ ~RootWalkable(root)) =>
        /\ exit_code # 0
        /\ ~HasMsg("clean")
        /\ ~HasMsg("scanned")

\* C7: whenever an item has been dispatched to the scan, the minimum run length is >= 1.
C7_MinWhitespacePositive ==
    (\E i \in 1..Len(slot) : slot[i].st # "todo") => ws_min >= 1

StrictlyIncreasing(findings) ==
    \A i, j \in 1..Len(findings) : i < j => findings[i].line_num < findings[j].line_num

\* C8: a file's Findings have strictly increasing line numbers, each the 1-based
\* index of a line of the file that matches, with that line's count; and in the
\* collected findings two Findings of one file keep that order.
C8_LineOrder ==
    /\ \A i \in 1..Len(slot) :
          slot[i].st = "done" =>
             /\ StrictlyIncreasing(slot[i].res)
             /\ \A j \in 1..Len(slot[i].res) :
                   LET f == slot[i].res[j]
                       ls == fs[paths[i]].lines
                   IN /\ f.line_num \in 1..Len(ls)
                      /\ ls[f.line_num].ok
                      /\ Find(ls[f.line_num].text, ws_min).found
                      /\ f.ws_count = Find(ls[f.line_num].text, ws_min).end
                                        - Find(ls[f.line_num].text, ws_min).start
    /\ \A i, j \in 1..Len(all_findings) :
          (i < j /\ all_findings[i].path = all_findings[j].path) =>
              all_findings[i].line_num < all_findings[j].line_num

C8_Witness ==
    /\ pc = "exit"
    /\ Len(paths) = 2
    /\ \E i, j \in 1..Len(all_findings) :
          /\ i < j
          /\ all_findings[i].path = all_findings[j].path
          /\ all_findings[i].line_num = 1
          /\ all_findings[j].line_num = 3
    /\ Cardinality(PathsOf(all_findings)) = 2

Headers == {i \in 1..Len(stdout) : stdout[i].kind = "header"}

\* The last header printed before position i (0: none).
HeaderBefore(i) ==
    IF \A h \in Headers : h > i THEN 0
    ELSE CHOOSE h \in Headers : h < i /\ \A g \in Headers : g < i => g <= h

\* C9: the report prints as many path headers as the "FOUND n file(s)" line
\* counts, and every Finding's line stands under the header of its own path.
C9_ReportGrouping ==
    (pc = "exit" /\ all_findings # <<>>) =>
        /\ stdout[1].kind = "found"
        /\ Cardinality(Headers) = stdout[1].a
        /\ Cardinality({i \in 1..Len(stdout) : stdout[i].kind = "line"}) = Len(all_findings)
        /\ \A i \in 1..Len(stdout) :
              stdout[i].kind = "line" =>
                  /\ HeaderBefore(i) # 0
                  /\ stdout[HeaderBefore(i)].path = stdout[i].path

C9_Witness ==
    /\ pc = "exit"
    /\ Cardinality(Headers) = 2
    /\ Len(all_findings) >= 4
    /\ stdout[1].a = 2

Dispatched == {i \in 1..Len(slot) : slot[i].st # "todo"}

\* C10: the counter never decreases; during the scan it counts the items
\* dispatched so far, an item once dispatched is never dispatched again and each
\* dispatch adds exactly one; the counter is loaded only after every item is
\* done; and "Scanned N files" reports the number of paths the walk produced.
C10_FilesScanned ==
    /\ [](/\ pc = "scan" => files_scanned = Cardinality(Dispatched)
          /\ total_scanned # -1 =>
                /\ \A i \in 1..Len(slot) : slot[i].st = "done"
                /\ total_scanned = Len(paths)
                /\ total_scanned = Cardinality(WalkFiles(root))
          /\ (pc = "exit" /\ exit_code = 0) =>
                stderr[Len(stderr)] = Msg("scanned", Cardinality(WalkFiles(root))))
    /\ [][/\ files_scanned' >= files_scanned
          /\ (pc = "scan" /\ pc' = "scan") =>
                /\ \A i \in 1..Len(slot) : slot[i].st # "todo" => slot'[i].st # "todo"
                /\ files_scanned' - files_scanned =
                      Cardinality({i \in 1..Len(slot) :
                                      slot[i].st = "todo" /\ slot'[i].st # "todo"})]_vars

\* Both walked files were counted although scan_file skipped one of them.
C10_Witness ==
    /\ pc = "exit"
    /\ total_scanned = 2
    /\ \E i \in 1..Len(paths) : ~Scannable(fs[paths[i]], max_size)
    /\ all_findings # <<>>

\* C6: the search for the boundary never goes below offset 0 and ends within
\* three steps; a cut preview is whole characters of the line, at most 120 of
\* them, followed by the marker; a line longer than 120 characters is cut and its
\* preview has at most 123 characters; a line not cut is returned unchanged.
C6_Truncation ==
    /\ pv_end >= 0
    /\ pv_pc = "loop" => pv_end > PreviewLimit - 4
    /\ pv_pc = "done" =>
          IF ByteLen(pv_line) > PreviewLimit
          THEN /\ \E k \in 0..PreviewLimit :
                     /\ k <= Len(pv_line)
                     /\ pv_out = SubSeq(pv_line, 1, k) \o Marker
                     /\ ByteOff(pv_line, k) = pv_end
               /\ Len(pv_out) <= PreviewLimit + 3
          ELSE pv_out = pv_line
    /\ (pv_pc = "done" /\ Len(pv_line) > PreviewLimit) =>
          /\ ByteLen(pv_line) > PreviewLimit
          /\ Len(pv_out) <= PreviewLimit + 3
    /\ pv_pc = "done" => pv_out = PreviewOf(pv_line)

\* A line of more than 120 characters with a character of several bytes across
\* byte offset 120: the search stepped back and the cut is short of 120.
C6_Witness ==
    /\ pv_pc = "done"
    /\ Len(pv_line) > PreviewLimit
    /\ pv_end < PreviewLimit
    /\ Len(pv_out) = pv_end + 3

====
